---- MODULE Spec2Model ----
(***************************************************************************)
(* Model of subscription_analyzer.py (GraphSubscriptionAnalyzer): the      *)
(* retrying request helper, the paginated subscription listing, the        *)
(* application-details resolver with its cache, and report generation.     *)
(* The program is single threaded; pc is the position of the one thread    *)
(* and caller tells which method the running helper returns to.            *)
(***************************************************************************)
EXTENDS Integers, Sequences, FiniteSets, TLC

\* ------------------------------------------------------------------ bounds
MaxRetries == 8        \* largest max_retries argument explored
MaxCalls == 2          \* direct calls of the retry helper in one run
MaxPages == 3          \* longest page chain the server serves
MaxPageLen == 2        \* most records in one page
MaxSubs == 2           \* most stored records when a run starts at the report
MaxGroups == 4         \* most applications in a stored list that is sorted
MaxGroupSize == 3      \* most subscriptions of one application in that list

\* ------------------------------------------------------- program constants
DefaultMaxRetries == 8
ReportsPerRun == 2     \* main calls generate_report twice (lines 388-389)
BaseDelay == 1
WaitCap == 120

\* A dictionary key that is absent (dict.get falls back to its default).
Missing == "<missing>"
\* Python None.
None == "<None>"

Min(a, b) == IF a < b THEN a ELSE b

RECURSIVE Pow2(_)
Pow2(n) == IF n <= 0 THEN 1 ELSE 2 * Pow2(n - 1)

\* ------------------------------------------------------------ HTTP replies
NetErr == 0                      \* requests.get raised a RequestException
StatusOK == 200
StatusThrottle == {429, 503}
StatusOther == {401, 404}

RetryAfterInts == {-1, 0, 5, 120, 300}
\* The Retry-After header: absent, the empty string, an HTTP date, or the
\* decimal text of an integer.
RetryAfterValues ==
    {[kind |-> k, n |-> 0] : k \in {"absent", "empty", "date"}}
        \cup {[kind |-> "int", n |-> v] : v \in RetryAfterInts}
NoHeader == [kind |-> "absent", n |-> 0]

\* Bodies of a 200 answer of the servicePrincipals lookup.
LookupBodies == {"match", "match_noname", "empty", "novalue", "badjson"}

NoResponse == [status |-> -1, retry_after |-> NoHeader, body |-> "none"]

\* What one requests.get inside the retry helper can produce.
FetchOutcomes(who) ==
    {[status |-> StatusOK, retry_after |-> NoHeader, body |-> b] :
        b \in IF who = "direct" THEN {"none"} ELSE LookupBodies}
    \cup {[status |-> s, retry_after |-> NoHeader, body |-> "none"] :
            s \in StatusOther \cup {NetErr}}
    \cup {[status |-> s, retry_after |-> h, body |-> "none"] :
            s \in StatusThrottle, h \in RetryAfterValues}

\* ------------------------------------------------------ subscription data
PAT_TRANSCRIPT ==
    <<"t", "r", "a", "n", "s", "c", "r", "i", "p", "t">>
PAT_MEETINGS ==
    <<"c", "o", "m", "m", "u", "n", "i", "c", "a", "t", "i", "o", "n", "s",
      "/", "o", "n", "l", "i", "n", "e", "M", "e", "e", "t", "i", "n", "g", "s">>
RES_TRANSCRIPT ==
    <<"/", "m", "/", "T", "r", "a", "n", "s", "c", "r", "i", "p", "t", "s">>
RES_MEETING ==
    <<"c", "o", "m", "m", "u", "n", "i", "c", "a", "t", "i", "o", "n", "s",
      "/", "o", "n", "l", "i", "n", "e", "M", "e", "e", "t", "i", "n", "g", "s",
      "/", "1">>
RES_LOWMEET ==
    <<"c", "o", "m", "m", "u", "n", "i", "c", "a", "t", "i", "o", "n", "s",
      "/", "o", "n", "l", "i", "n", "e", "m", "e", "e", "t", "i", "n", "g", "s">>
RES_DRIVE ==
    <<"/", "u", "s", "e", "r", "s", "/", "1", "/", "d", "r", "i", "v", "e">>
\* A record without a 'resource' key: the filter reads '' (line 253).
RES_ABSENT == << >>

\* The subscription objects the listing endpoint serves in this model.  Only
\* the keys the analyzer branches on are kept; the other keys are copied
\* through unchanged by the code.
Records ==
    { [id |-> "s1", resource |-> RES_TRANSCRIPT, applicationId |-> "a1"],
      [id |-> "s2", resource |-> RES_DRIVE,      applicationId |-> "a1"],
      [id |-> "s3", resource |-> RES_MEETING,    applicationId |-> "a2"],
      [id |-> "s4", resource |-> RES_LOWMEET,    applicationId |-> Missing],
      [id |-> "s5", resource |-> RES_ABSENT,     applicationId |-> "a2"] }

\* dict.get(key, default)
Get(value, default) == IF value = Missing THEN default ELSE value

AppKeys == {"a1", "a2", "Unknown"}

\* The records the listing endpoint serves in the pagination runs.
PageRecords == {r \in Records : r.id \in {"s1", "s4"}}

SeqsUpTo(S, n) == UNION {[1..k -> S] : k \in 0..n}

\* str.lower() on the characters that occur in the resources above.
LowerChar(c) == CASE c = "T" -> "t" [] c = "M" -> "m" [] OTHER -> c
Lower(s) == [i \in 1..Len(s) |-> LowerChar(s[i])]

\* pat in s
Contains(s, pat) ==
    \E i \in 1..(Len(s) - Len(pat) + 1) :
        \A j \in 1..Len(pat) : s[i + j - 1] = pat[j]

\* Variant: the resource is not lower-cased before the first test.
IsTranscriptCaseSensitive(sub) ==
    \/ Contains(sub.resource, PAT_TRANSCRIPT)
    \/ Contains(sub.resource, PAT_MEETINGS)

\* Lines 253-254: the predicate of filter_transcript_subscriptions.
IsTranscript(sub) ==
    \/ Contains(Lower(sub.resource), PAT_TRANSCRIPT)
    \/ Contains(sub.resource, PAT_MEETINGS)

\* Lines 251-255: the list comprehension, in input order.
FilterTranscripts(subs) == SelectSeq(subs, IsTranscript)

\* ------------------------------------------------------ application infos
SpDisplayName(a) ==
    CASE a = "a1" -> "Contoso Bot" [] a = "a2" -> "Fabrikam Sync"
      [] OTHER -> "Unknown App"
SpObjectId(a) ==
    CASE a = "a1" -> "sp-1" [] a = "a2" -> "sp-2" [] OTHER -> "sp-0"

NoInfo == [displayName |-> None, appId |-> None, servicePrincipalId |-> None]
\* Lines 222-226
ResolvedInfo(a, body) ==
    [displayName |-> IF body = "match" THEN SpDisplayName(a) ELSE "Unknown",
     appId |-> a, servicePrincipalId |-> SpObjectId(a)]
\* Lines 231-235
NotFoundInfo(a) ==
    [displayName |-> "Unknown (Not found in tenant)", appId |-> a,
     servicePrincipalId |-> None]
\* Lines 240-244
ErrorInfo(a) ==
    [displayName |-> "Error fetching details", appId |-> a,
     servicePrincipalId |-> None]

EmptyCache == [a \in {} |-> NoInfo]

VARIABLES
    pc,               \* "idle", "listing", "report", "fetch"
    caller,           \* "direct", "report": who called the helper
    calls,            \* calls made so far in this run
    \* GraphSubscriptionAnalyzer fields
    subscriptions,    \* self.subscriptions
    app_details,      \* self.app_details: applicationId -> info
    \* _make_graph_request_with_retry
    max_retries, retry_count, wait_time,
    response,         \* outcome of the last requests.get of the helper call
    req_count,        \* requests.get calls of the current helper call
    sleep_count,      \* completed time.sleep calls of the current helper call
    throttled_only,   \* every outcome of the current helper call was 429/503
    fetch_out,        \* how the helper call ended
    \* get_all_subscriptions
    url, all_subscriptions, page_count,
    served,           \* the 'value' arrays answered with 200, in order
    list_reqs,        \* requests.get calls of the listing call
    list_out,         \* how the listing call ended, and its return value
    subs_before,      \* self.subscriptions when the listing call started
    \* get_application_details
    app_id,           \* argument of the last call
    ret,              \* value returned by the last call
    ret_cached,       \* the last call returned from the cache (line 204)
    lookups,          \* applicationId -> lookups started (line 216)
    resolve_calls,    \* arguments of the calls made by the last
                      \* generate_report (line 290), in order
    \* generate_report
    filter_transcripts,   \* argument of the last generate_report call
    subs_to_process, transcript_count, apps_map, idx,
    report            \* the last report returned

progVars == <<subscriptions, app_details>>
fetchVars == <<max_retries, retry_count, wait_time, response, req_count,
               sleep_count, throttled_only, fetch_out>>
listVars == <<url, all_subscriptions, page_count, served, list_reqs, list_out,
              subs_before>>
resolveVars == <<app_id, ret, ret_cached, lookups, resolve_calls>>
reportVars == <<filter_transcripts, subs_to_process, transcript_count,
                apps_map, idx, report>>
vars == <<pc, caller, calls, progVars, fetchVars, listVars, resolveVars,
          reportVars>>

NoReport ==
    [generated |-> FALSE, totalSubscriptions |-> 0,
     transcriptSubscriptions |-> 0, reportedSubscriptions |-> 0,
     uniqueApplications |-> 0, applications |-> << >>]

\* ---------------------------------------------------------- generate_report
\* Position of the group of application a in apps_map, 0 when there is none
\* (line 289: app_id not in apps_map).
GroupIndex(map, a) ==
    IF \E i \in 1..Len(map) : map[i].applicationId = a
      THEN CHOOSE i \in 1..Len(map) : map[i].applicationId = a
      ELSE 0

\* Lines 292-297
NewGroup(a, info) ==
    [applicationId |-> a, displayName |-> info.displayName,
     servicePrincipalId |-> info.servicePrincipalId, subscriptions |-> << >>]

\* Variant: the record that creates a group is not appended to it.
AddSubscriptionSkipFirst(map, sub) ==
    LET i == GroupIndex(map, Get(sub.applicationId, "Unknown"))
    IN  IF map[i].subscriptions = << >> THEN map
        ELSE [map EXCEPT ![i].subscriptions =
                Append(@, [id |-> sub.id, resource |-> sub.resource])]

\* Variant: the record is put at the front of its group.
AddSubscriptionPrepend(map, sub) ==
    LET i == GroupIndex(map, Get(sub.applicationId, "Unknown"))
    IN  [map EXCEPT ![i].subscriptions =
            <<[id |-> sub.id, resource |-> sub.resource]>> \o @]

\* Lines 299-306
AddSubscription(map, sub) ==
    LET i == GroupIndex(map, Get(sub.applicationId, "Unknown"))
    IN  [map EXCEPT ![i].subscriptions =
            Append(@, [id |-> sub.id, resource |-> sub.resource])]

\* Variant: a group is put ahead of the groups of its own size.
InsertGroupBeforeEqual(sorted, g) ==
    LET ahead == {i \in 1..Len(sorted) :
                    Len(sorted[i].subscriptions) > Len(g.subscriptions)}
        k == Cardinality(ahead)
    IN  SubSeq(sorted, 1, k) \o <<g>> \o SubSeq(sorted, k + 1, Len(sorted))

\* Line 319: list.sort(key=len(subscriptions), reverse=True); the sort is
\* stable, so groups of equal size keep their order.
InsertGroup(sorted, g) ==
    LET ahead == {i \in 1..Len(sorted) :
                    Len(sorted[i].subscriptions) >= Len(g.subscriptions)}
        k == Cardinality(ahead)
    IN  SubSeq(sorted, 1, k) \o <<g>> \o SubSeq(sorted, k + 1, Len(sorted))

RECURSIVE SortBySubscriptions(_)
SortBySubscriptions(groups) ==
    IF groups = << >> THEN << >>
    ELSE InsertGroup(SortBySubscriptions(SubSeq(groups, 1, Len(groups) - 1)),
                     groups[Len(groups)])

\* Variant: the groups are reported in the order of their creation.
BuildReportUnsorted(map, todo, tcount) ==
    [generated |-> TRUE,
     totalSubscriptions |-> Len(subscriptions),
     transcriptSubscriptions |-> tcount,
     reportedSubscriptions |-> Len(todo),
     uniqueApplications |-> Len(map),
     applications |-> map]

\* Lines 309-319
BuildReport(map, todo, tcount) ==
    [generated |-> TRUE,
     totalSubscriptions |-> Len(subscriptions),
     transcriptSubscriptions |-> tcount,
     reportedSubscriptions |-> Len(todo),
     uniqueApplications |-> Len(map),
     applications |-> SortBySubscriptions(map)]

\* The for loop of lines 286-306 moves on to record i of todo, or the report
\* is built and returned when the records are used up; the locals of
\* generate_report are gone then.  f is the filter_transcripts argument.
ReportContinue(map, i, todo, tcount, f) ==
    IF i > Len(todo)
      THEN /\ report' = BuildReport(map, todo, tcount)
           /\ pc' = "idle"
           /\ apps_map' = << >>
           /\ idx' = 1
           /\ subs_to_process' = << >>
           /\ transcript_count' = 0
           /\ filter_transcripts' = f
      ELSE /\ pc' = "report"
           /\ apps_map' = map
           /\ idx' = i
           /\ subs_to_process' = todo
           /\ transcript_count' = tcount
           /\ filter_transcripts' = f
           /\ UNCHANGED report

\* ---------------------------------------------------- get_application_details
\* Variant: the handler of line 238 catches request exceptions only, so the
\* other exceptions leave the method and nothing is returned.
ResolveResultNarrow(a, out, o) ==
    IF out = "returned" /\ o.status = StatusOK
          /\ o.body \in {"match", "match_noname"}
      THEN [info |-> ResolvedInfo(a, o.body), store |-> TRUE]
    ELSE IF out = "returned" /\ o.body # "badjson"
      THEN [info |-> NotFoundInfo(a), store |-> TRUE]
    ELSE IF out = "returned"
      THEN [info |-> ErrorInfo(a), store |-> FALSE]
    ELSE [info |-> NoInfo, store |-> FALSE]

\* Lines 216-244: what the call returns for the way the lookup ended, and
\* whether the value is stored in self.app_details.
ResolveResult(a, out, o) ==
    IF out = "returned" /\ o.status = StatusOK
          /\ o.body \in {"match", "match_noname"}
      THEN [info |-> ResolvedInfo(a, o.body), store |-> TRUE]
    ELSE IF out = "returned" /\ o.body # "badjson"
      THEN [info |-> NotFoundInfo(a), store |-> TRUE]
    ELSE [info |-> ErrorInfo(a), store |-> FALSE]

\* self.app_details[app_id] = info
CachePut(cache, a, info) ==
    [x \in DOMAIN cache \cup {a} |-> IF x = a THEN info ELSE cache[x]]

CacheAfter(a, r) == IF r.store THEN CachePut(app_details, a, r.info)
                    ELSE app_details

\* ------------------------------------------ _make_graph_request_with_retry
\* Variant: the exponent is the retry number itself.
BackoffFromTwo(rc) == BaseDelay * Pow2(rc)

\* Lines 131/134/152: base_delay * (2 ** (retry_count - 1)).
Backoff(rc) == BaseDelay * Pow2(rc - 1)

\* Variant: the cap of line 137 is missing.
ThrottleWaitUncapped(h, rc) ==
    IF h.kind = "int" THEN h.n ELSE Backoff(rc)

\* Variant: the Retry-After header is not read.
ThrottleWaitNoHeader(h, rc) == Min(Backoff(rc), WaitCap)

\* Lines 123-137: the wait for a 429/503 answer, cap included.
ThrottleWait(h, rc) ==
    LET wait == IF h.kind \in {"absent", "empty"} THEN Backoff(rc)
                ELSE IF h.kind = "int" THEN h.n
                ELSE Backoff(rc)
    IN  Min(wait, WaitCap)

\* Variant: a network failure waits a fixed second.
NetworkWaitFixed(rc) == BaseDelay

\* Lines 152-153: the wait after a RequestException.
NetworkWait(rc) == Min(Backoff(rc), WaitCap)

WaitOf(o, rc) ==
    IF o.status = NetErr THEN NetworkWait(rc)
    ELSE ThrottleWait(o.retry_after, rc)

\* The response and the wait of a retried request are not read again once
\* the loop goes round (line 141), so they are recorded only where the helper
\* itself is under inspection, in a direct call.
Observed(value, blank) == IF caller = "direct" THEN value ELSE blank

\* Lines 104-105: entry of the helper.
StartFetch(who, mr) ==
    /\ pc' = "fetch"
    /\ caller' = who
    /\ max_retries' = mr
    /\ retry_count' = 0
    /\ wait_time' = 0
    /\ response' = NoResponse
    /\ req_count' = 0
    /\ sleep_count' = 0
    /\ throttled_only' = TRUE
    /\ fetch_out' = "running"

\* The helper call ends: the returned response or the raised exception
\* reaches the caller, which runs on to its own next request or return.
\* rc, w, sc are the helper's retry_count, wait_time and sleep count at that
\* moment.  The helper's frame is kept for inspection after a direct call;
\* inside get_application_details it is gone when the method goes on, and
\* what is left is the response of line 216 when one was returned.
FetchExit(out, o, rc, w, sc) ==
    /\ UNCHANGED <<caller, calls, subscriptions, listVars>>
    /\ IF caller = "direct"
         THEN /\ fetch_out' = out
              /\ response' = o
              /\ retry_count' = rc
              /\ wait_time' = w
              /\ sleep_count' = sc
              /\ req_count' = req_count + 1
              /\ throttled_only' =
                    (throttled_only /\ o.status \in StatusThrottle)
              /\ UNCHANGED max_retries
         ELSE /\ fetch_out' = "none"
              /\ response' = IF out = "returned" THEN o ELSE NoResponse
              /\ retry_count' = 0
              /\ wait_time' = 0
              /\ sleep_count' = 0
              /\ req_count' = 0
              /\ throttled_only' = TRUE
              /\ max_retries' = DefaultMaxRetries
    /\ CASE caller = "direct" ->
              /\ pc' = "idle"
              /\ UNCHANGED <<app_details, resolveVars, reportVars>>
         [] caller = "report" ->
              LET r == ResolveResult(app_id, out, o)
                  sub == subs_to_process[idx]
                  map == Append(apps_map, NewGroup(app_id, r.info))
              IN  /\ app_details' = CacheAfter(app_id, r)
                  /\ ret' = r.info
                  /\ ReportContinue(AddSubscription(map, sub), idx + 1,
                                    subs_to_process, transcript_count,
                                    filter_transcripts)
                  /\ UNCHANGED <<app_id, ret_cached, lookups, resolve_calls>>

\* A direct call of the helper with any retry budget.
FetchCall ==
    /\ pc = "idle"
    /\ calls < MaxCalls
    /\ calls' = calls + 1
    /\ \E mr \in 0..MaxRetries : StartFetch("direct", mr)
    /\ UNCHANGED <<progVars, listVars, resolveVars, reportVars>>

\* Variant: the answer is counted as a retry before it is returned.
FetchReturnCounted ==
    /\ pc = "fetch"
    /\ retry_count <= max_retries
    /\ \E o \in FetchOutcomes(caller) :
        /\ o.status = StatusOK \/ o.status \in StatusOther
        /\ FetchExit("returned", o, retry_count + 1, wait_time, sleep_count)

\* Lines 109-113 and 143-144: the request answers 200 or a status that is
\* not retried; the response is returned.
FetchReturn ==
    /\ pc = "fetch"
    /\ retry_count <= max_retries
    /\ \E o \in FetchOutcomes(caller) :
        /\ o.status = StatusOK \/ o.status \in StatusOther
        /\ FetchExit("returned", o, retry_count, wait_time, sleep_count)

\* Lines 116-141 and 146-156: a retryable failure inside the budget; the
\* helper sleeps and goes round the loop.
FetchRetry ==
    /\ pc = "fetch"
    /\ retry_count <= max_retries
    /\ \E o \in FetchOutcomes(caller) :
        /\ o.status \in StatusThrottle \cup {NetErr}
        /\ retry_count + 1 <= max_retries
        /\ WaitOf(o, retry_count + 1) >= 0
        /\ response' = Observed(o, NoResponse)
        /\ wait_time' = Observed(WaitOf(o, retry_count + 1), 0)
        /\ throttled_only' =
              Observed(throttled_only /\ o.status \in StatusThrottle, TRUE)
    /\ req_count' = req_count + 1
    /\ retry_count' = retry_count + 1
    /\ sleep_count' = sleep_count + 1
    /\ UNCHANGED <<pc, caller, calls, max_retries, fetch_out, progVars,
                   listVars, resolveVars, reportVars>>

\* Lines 116-140: as FetchRetry, but the wait is negative and time.sleep
\* raises ValueError, which no handler of the helper catches.
FetchSleepError ==
    /\ pc = "fetch"
    /\ retry_count <= max_retries
    /\ \E o \in FetchOutcomes(caller) :
        /\ o.status \in StatusThrottle \cup {NetErr}
        /\ retry_count + 1 <= max_retries
        /\ WaitOf(o, retry_count + 1) < 0
        /\ FetchExit("sleep_error", o, retry_count + 1,
                     WaitOf(o, retry_count + 1), sleep_count)

\* Lines 119-120 and 149-150: the failure that exceeds the budget.
FetchExhausted ==
    /\ pc = "fetch"
    /\ retry_count <= max_retries
    /\ \E o \in FetchOutcomes(caller) :
        /\ o.status \in StatusThrottle \cup {NetErr}
        /\ retry_count + 1 > max_retries
        /\ FetchExit(IF o.status = NetErr THEN "network_exhausted"
                     ELSE "retries_exhausted", o, retry_count + 1, wait_time,
                     sleep_count)

\* ---------------------------------------------------------- generate_report
\* Lines 274-283: entry of generate_report, with either value of
\* filter_transcripts.
ReportCall ==
    /\ pc = "idle"
    /\ calls < ReportsPerRun
    /\ calls' = calls + 1
    /\ \E f \in BOOLEAN :
        LET matching == FilterTranscripts(subscriptions)
            todo == IF f THEN matching ELSE subscriptions
        IN  ReportContinue(<< >>, 1, todo, Len(matching), f)
    /\ resolve_calls' = << >>
    /\ UNCHANGED <<caller, progVars, fetchVars, listVars, app_id, ret,
                   ret_cached, lookups>>

\* Lines 287-306 for a record whose application already has a group.
ReportRecordGrouped ==
    /\ pc = "report"
    /\ idx <= Len(subs_to_process)
    /\ LET sub == subs_to_process[idx]
       IN  /\ GroupIndex(apps_map, Get(sub.applicationId, "Unknown")) # 0
           /\ ReportContinue(AddSubscription(apps_map, sub), idx + 1,
                             subs_to_process, transcript_count,
                             filter_transcripts)
    /\ UNCHANGED <<caller, calls, progVars, fetchVars, listVars, resolveVars>>

\* Variant: get_application_details does not consult the cache and makes
\* the lookup again.
ReportRecordCachedRefetch ==
    /\ pc = "report"
    /\ idx <= Len(subs_to_process)
    /\ LET a == Get(subs_to_process[idx].applicationId, "Unknown")
       IN  /\ GroupIndex(apps_map, a) = 0
           /\ a \in DOMAIN app_details
           /\ app_id' = a
           /\ ret_cached' = FALSE
           /\ lookups' = [lookups EXCEPT ![a] = @ + 1]
           /\ resolve_calls' = Append(resolve_calls, a)
    /\ StartFetch("report", DefaultMaxRetries)
    /\ UNCHANGED <<calls, progVars, listVars, ret, reportVars>>

\* Lines 287-306 for the first record of an application whose details are
\* in the cache (line 204).
ReportRecordCached ==
    /\ pc = "report"
    /\ idx <= Len(subs_to_process)
    /\ LET sub == subs_to_process[idx]
           a == Get(sub.applicationId, "Unknown")
           map == Append(apps_map, NewGroup(a, app_details[a]))
       IN  /\ GroupIndex(apps_map, a) = 0
           /\ a \in DOMAIN app_details
           /\ app_id' = a
           /\ ret' = app_details[a]
           /\ ret_cached' = TRUE
           /\ resolve_calls' = Append(resolve_calls, a)
           /\ ReportContinue(AddSubscription(map, sub), idx + 1,
                             subs_to_process, transcript_count,
                             filter_transcripts)
    /\ UNCHANGED <<caller, calls, progVars, fetchVars, listVars, lookups>>

\* Lines 287-291 for the first record of an application that is not in the
\* cache: the lookup starts (line 216).
ReportRecordLookup ==
    /\ pc = "report"
    /\ idx <= Len(subs_to_process)
    /\ LET a == Get(subs_to_process[idx].applicationId, "Unknown")
       IN  /\ GroupIndex(apps_map, a) = 0
           /\ a \notin DOMAIN app_details
           /\ app_id' = a
           /\ ret_cached' = FALSE
           /\ lookups' = [lookups EXCEPT ![a] = @ + 1]
           /\ resolve_calls' = Append(resolve_calls, a)
    /\ StartFetch("report", DefaultMaxRetries)
    /\ UNCHANGED <<calls, progVars, listVars, ret, reportVars>>

\* ------------------------------------------------------ get_all_subscriptions
\* Variant: a record that is already in the list is not added again.
ExtendUnique(acc, value) ==
    acc \o SelectSeq(value, LAMBDA r : \A i \in 1..Len(acc) : acc[i] # r)

\* Line 187: all_subscriptions.extend(subscriptions)
Extend(acc, value) == acc \o value

\* Lines 172-174: entry of get_all_subscriptions; main calls it once per run
\* (line 385).
ListCall ==
    /\ pc = "idle"
    /\ list_out.kind = "none"
    /\ calls' = calls + 1
    /\ pc' = "listing"
    /\ url' = "first"
    /\ all_subscriptions' = << >>
    /\ page_count' = 0
    /\ served' = << >>
    /\ list_reqs' = 0
    /\ list_out' = [kind |-> "running", status |-> StatusOK, value |-> << >>]
    /\ subs_before' = subscriptions
    /\ UNCHANGED <<caller, progVars, fetchVars, resolveVars, reportVars>>

\* Lines 177-192: one of the pages in values is answered with 200 and
\* carries @odata.nextLink.
PageMore(values) ==
    /\ pc = "listing"
    /\ url # None
    /\ \E value \in values :
        /\ all_subscriptions' = Extend(all_subscriptions, value)
        /\ served' = Append(served, value)
    /\ page_count' = page_count + 1
    /\ list_reqs' = list_reqs + 1
    /\ url' = "next"
    /\ UNCHANGED <<pc, caller, calls, progVars, fetchVars, list_out,
                   subs_before, resolveVars, reportVars>>

\* Lines 177-196: one of the pages in values is answered with 200 without
\* @odata.nextLink; the loop ends, the list is stored and returned.
PageLast(values) ==
    /\ pc = "listing"
    /\ url # None
    /\ \E value \in values :
        /\ all_subscriptions' = Extend(all_subscriptions, value)
        /\ served' = Append(served, value)
        /\ subscriptions' = Extend(all_subscriptions, value)
        /\ list_out' = [kind |-> "returned", status |-> StatusOK,
                        value |-> Extend(all_subscriptions, value)]
    /\ page_count' = page_count + 1
    /\ list_reqs' = list_reqs + 1
    /\ url' = None
    /\ pc' = "idle"
    /\ UNCHANGED <<caller, calls, app_details, fetchVars, subs_before,
                   resolveVars, reportVars>>

\* Variant: the stored list is updated page by page inside the loop.
ListPageMoreStoring ==
    /\ pc = "listing"
    /\ url # None
    /\ page_count + 1 < MaxPages
    /\ \E value \in SeqsUpTo(PageRecords, MaxPageLen) :
        /\ all_subscriptions' = Extend(all_subscriptions, value)
        /\ served' = Append(served, value)
        /\ subscriptions' = Extend(all_subscriptions, value)
    /\ page_count' = page_count + 1
    /\ list_reqs' = list_reqs + 1
    /\ url' = "next"
    /\ UNCHANGED <<pc, caller, calls, app_details, fetchVars, list_out,
                   subs_before, resolveVars, reportVars>>

\* Lines 177-192: a page answered with 200 that carries @odata.nextLink.
ListPageMore ==
    /\ page_count + 1 < MaxPages
    /\ PageMore(SeqsUpTo(PageRecords, MaxPageLen))

\* Lines 177-196: a page answered with 200 without @odata.nextLink; the loop
\* ends, the list is stored and returned.
ListPageLast == PageLast(SeqsUpTo(PageRecords, MaxPageLen))

\* A listing of three pages of 2, 2 and 1 records of the applications a1
\* and a2.
ThreePageSizes == <<2, 2, 1>>
ThreePageRecords == {r \in Records : r.id \in {"s1", "s3"}}

ThreePagesMore ==
    /\ page_count + 1 < Len(ThreePageSizes)
    /\ PageMore([1..ThreePageSizes[page_count + 1] -> ThreePageRecords])

ThreePagesLast ==
    /\ page_count + 1 = Len(ThreePageSizes)
    /\ PageLast([1..ThreePageSizes[page_count + 1] -> ThreePageRecords])

\* Lines 180-185: the request raises, answers a status other than 200
\* (line 183 raises), or answers 200 with a body that is not JSON.  The
\* exception leaves get_all_subscriptions.
ListPageFail ==
    /\ pc = "listing"
    /\ url # None
    /\ \E s \in {NetErr, StatusOK} \cup StatusThrottle \cup StatusOther :
        list_out' = [kind |-> IF s = NetErr THEN "raised_network"
                              ELSE IF s = StatusOK THEN "raised_json"
                              ELSE "raised_status",
                     status |-> s, value |-> << >>]
    /\ page_count' = page_count + 1
    /\ list_reqs' = list_reqs + 1
    /\ pc' = "idle"
    /\ UNCHANGED <<caller, calls, progVars, fetchVars, url, all_subscriptions,
                   served, subs_before, resolveVars, reportVars>>

\* ------------------------------------------------------------ specifications
\* Lines 40-42 (__init__), with the locals of the methods not yet called.
InitCommon ==
    /\ pc = "idle"
    /\ caller = "direct"
    /\ calls = 0
    /\ max_retries = DefaultMaxRetries
    /\ retry_count = 0
    /\ wait_time = 0
    /\ response = NoResponse
    /\ req_count = 0
    /\ sleep_count = 0
    /\ throttled_only = TRUE
    /\ fetch_out = "none"
    /\ url = None
    /\ all_subscriptions = << >>
    /\ page_count = 0
    /\ served = << >>
    /\ list_reqs = 0
    /\ list_out = [kind |-> "none", status |-> StatusOK, value |-> << >>]
    /\ app_id = None
    /\ ret = NoInfo
    /\ ret_cached = FALSE
    /\ lookups = [a \in AppKeys |-> 0]
    /\ resolve_calls = << >>
    /\ filter_transcripts = FALSE
    /\ subs_to_process = << >>
    /\ transcript_count = 0
    /\ apps_map = << >>
    /\ idx = 1
    /\ report = NoReport

\* The retry helper on its own, called with any retry budget.
InitFetch ==
    /\ InitCommon
    /\ app_details = EmptyCache
    /\ subscriptions = << >>
    /\ subs_before = << >>

NextFetch ==
    FetchCall \/ FetchReturn \/ FetchRetry \/ FetchSleepError \/ FetchExhausted

SpecFetch == InitFetch /\ [][NextFetch]_vars

\* The listing: one get_all_subscriptions call on an analyzer whose stored
\* list is empty (line 41) or holds an earlier listing.
InitList ==
    /\ InitCommon
    /\ app_details = EmptyCache
    /\ subscriptions \in SeqsUpTo(PageRecords, 1)
    /\ subs_before = subscriptions

NextList == ListCall \/ ListPageMore \/ ListPageLast \/ ListPageFail

SpecList == InitList /\ [][NextList]_vars

\* Resolver and report on an analyzer that holds a finished listing: the
\* generate_report calls of main.
InitReport ==
    /\ InitCommon
    /\ app_details = EmptyCache
    /\ subscriptions \in SeqsUpTo(Records, MaxSubs)
    /\ subs_before = subscriptions

NextReport ==
    \/ ReportCall \/ ReportRecordGrouped \/ ReportRecordCached
    \/ ReportRecordLookup
    \/ FetchReturn \/ FetchRetry \/ FetchSleepError \/ FetchExhausted

SpecReport == InitReport /\ [][NextReport]_vars

\* The grouping and the sort of generate_report on stored lists of several
\* applications: the list holds the subscriptions of one application after
\* those of another, and every application is in the cache already, as in
\* the second generate_report of main when the first resolved them all.
SortKeys == <<"a1", "a2", "a3", "a4", "a5", "a6">>

RECURSIVE Blocks(_, _)
Blocks(counts, i) ==
    IF i > Len(counts) THEN << >>
    ELSE [k \in 1..counts[i] |->
            [id |-> "s2", resource |-> RES_DRIVE,
             applicationId |-> SortKeys[i]]] \o Blocks(counts, i + 1)

InitSort ==
    /\ InitCommon
    /\ \E counts \in SeqsUpTo(1..MaxGroupSize, MaxGroups) :
          /\ subscriptions = Blocks(counts, 1)
          /\ app_details = [a \in {SortKeys[i] : i \in 1..Len(counts)} |->
                              ResolvedInfo(a, "match")]
    /\ subs_before = subscriptions

NextSort == ReportCall \/ ReportRecordGrouped \/ ReportRecordCached

SpecSort == InitSort /\ [][NextSort]_vars

\* main, lines 385-389, against a server that holds the three pages and
\* answers every request at once: the listing, then generate_report with
\* its lookups, none of which is throttled or fails in transport.
InitThreePages ==
    /\ InitCommon
    /\ app_details = EmptyCache
    /\ subscriptions = << >>
    /\ subs_before = << >>

NextThreePages ==
    \/ ListCall \/ ThreePagesMore \/ ThreePagesLast
    \/ ReportCall \/ ReportRecordGrouped \/ ReportRecordLookup
    \/ FetchReturn

SpecThreePages == InitThreePages /\ [][NextThreePages]_vars

\* ------------------------------------------------------------------ claims
RECURSIVE Flatten(_)
\* The concatenation of a sequence of pages, in page order.
Flatten(pages) ==
    IF pages = << >> THEN << >> ELSE pages[1] \o Flatten(Tail(pages))

ListRaised == {"raised_network", "raised_json", "raised_status"}

\* C1: when every page of the chain answers 200, get_all_subscriptions
\* returns the concatenation of the pages' value arrays in page order, with
\* nothing reordered, dropped or deduplicated, after exactly one request per
\* page, and it asks for nothing after the page without a continuation link.
C1_ListingIsConcatenation ==
    /\ pc = "listing" =>
          /\ all_subscriptions = Flatten(served)
          /\ list_reqs = Len(served)
    /\ list_out.kind = "returned" =>
          /\ list_out.value = Flatten(served)
          /\ subscriptions = list_out.value
          /\ list_reqs = Len(served)
          /\ url = None
          /\ pc # "listing"

\* A listing of three pages returned a list that holds a record twice and is
\* not in id order.
C1_Witness ==
    /\ list_out.kind = "returned"
    /\ Len(served) = 3
    /\ \E i, j \in 1..Len(list_out.value) :
          i < j /\ list_out.value[i] = list_out.value[j]
    /\ \E i \in 1..(Len(list_out.value) - 1) :
          list_out.value[i].id = "s4" /\ list_out.value[i + 1].id = "s1"

\* C2: a page request that fails (exception, status other than 200) makes
\* get_all_subscriptions raise: no list is returned, and self.subscriptions
\* is what it was before the call.
C2_FailedListingRaises ==
    /\ list_out.kind \in ListRaised =>
          /\ subscriptions = subs_before
          /\ list_out.value = << >>
          /\ pc = "idle"
    /\ (pc # "listing" /\ list_reqs > Len(served)) =>
          list_out.kind \in ListRaised
    /\ list_out.kind = "returned" => list_reqs = Len(served)

\* The second or a later page failed after records had been accumulated, on
\* an analyzer that held an earlier list.
C2_Witness ==
    /\ list_out.kind \in ListRaised
    /\ page_count >= 2
    /\ all_subscriptions # << >>
    /\ subs_before # << >>
    /\ all_subscriptions # subs_before

\* C3: a listing page answered 429 or 503 is retried with backoff, and the
\* listing fails only once the retry budget is used up: when the listing
\* raises on a 429/503, more than max_retries requests have failed.
C3_ListingRetriesThrottling ==
    (list_out.kind = "raised_status" /\ list_out.status \in StatusThrottle)
        => list_reqs - Len(served) > DefaultMaxRetries

InfoKeys == {"displayName", "appId", "servicePrincipalId"}

\* C4: once get_application_details has stored an entry for an id, a later
\* call for that id starts no lookup and returns the stored value, and the
\* stored entry is never replaced or removed.
C4_CachedEntryIsFinal ==
    /\ [](ret_cached =>
            /\ app_id \in DOMAIN app_details
            /\ ret = app_details[app_id])
    /\ [][\A a \in DOMAIN app_details :
            /\ a \in DOMAIN app_details'
            /\ app_details'[a] = app_details[a]
            /\ lookups'[a] = lookups[a]]_vars

\* A second call for an id returned the cached 'not found' placeholder; the
\* one lookup of that id was made by the first call.
C4_Witness ==
    /\ ret_cached
    /\ calls = 2
    /\ pc = "idle"
    /\ ret = NotFoundInfo(app_id)
    /\ lookups[app_id] = 1

\* C5: at most one lookup is ever started per application id, also after a
\* lookup that failed.
C5_OneLookupPerId == \A a \in AppKeys : lookups[a] <= 1

C7_GroupsHaveCacheEntries ==
    (report.generated /\ pc = "idle") =>
        \A i \in 1..Len(report.applications) :
            report.applications[i].applicationId \in DOMAIN app_details

\* C8: the helper never makes more than max_retries + 1 requests, and a call
\* whose every response is 429/503 makes exactly max_retries + 1 requests
\* with max_retries sleeps between them and then fails with the
\* retries-exhausted error.
C8_ThrottledCallExhaustsBudget ==
    /\ req_count <= max_retries + 1
    /\ sleep_count <= max_retries
    /\ (caller = "direct" /\ fetch_out \notin {"none", "running"}
            /\ throttled_only) =>
          /\ fetch_out = "retries_exhausted"
          /\ req_count = max_retries + 1
          /\ sleep_count = max_retries

BackoffTable == <<1, 2, 4, 8, 16, 32, 64, 120>>
ExpectedBackoff(k) == IF k <= Len(BackoffTable) THEN BackoffTable[k] ELSE 120

\* C9: after a 429/503 without a Retry-After header, or with one that is not
\* an integer, the helper sleeps 1, 2, 4, 8, 16, 32, 64, 120 seconds before
\* retry 1..8: min(2^(k-1), 120) before retry k.
C9_BackoffSchedule ==
    (/\ pc = "fetch"
     /\ caller = "direct"
     /\ retry_count >= 1
     /\ response.status \in StatusThrottle
     /\ response.retry_after.kind \in {"absent", "empty", "date"}) =>
        /\ wait_time = ExpectedBackoff(retry_count)
        /\ sleep_count = retry_count

\* The eighth retry after a 503 with an HTTP date waited the capped 120 s.
C9_Witness ==
    /\ pc = "fetch"
    /\ caller = "direct"
    /\ retry_count = 8
    /\ response.status = 503
    /\ response.retry_after.kind = "date"
    /\ wait_time = 120

\* C10: after a 429/503 whose Retry-After is an integer n with 0 < n <= 120
\* the helper sleeps exactly n seconds, whatever the retry number, and the
\* retry has used one unit of the budget.
C10_RetryAfterIsUsed ==
    (/\ pc = "fetch"
     /\ caller = "direct"
     /\ retry_count >= 1
     /\ response.status \in StatusThrottle
     /\ response.retry_after.kind = "int"
     /\ response.retry_after.n > 0
     /\ response.retry_after.n <= 120) =>
        /\ wait_time = response.retry_after.n
        /\ sleep_count = retry_count
        /\ req_count = retry_count
        /\ retry_count <= max_retries

\* The fifth retry waited the 5 s of the header, not the 16 s of the backoff.
C10_Witness ==
    /\ pc = "fetch"
    /\ caller = "direct"
    /\ retry_count = 5
    /\ response.status = 429
    /\ response.retry_after = [kind |-> "int", n |-> 5]
    /\ wait_time = 5

\* C11: every wait the helper passes to time.sleep is at most 120 seconds,
\* for any Retry-After value, retry number and budget, after a throttling
\* answer as after a network failure.
C11_WaitIsCapped ==
    /\ wait_time <= 120
    /\ (pc = "fetch" /\ caller = "direct" /\ retry_count >= 1
            /\ response.status \in StatusThrottle
            /\ response.retry_after.kind = "int"
            /\ response.retry_after.n > 120) => wait_time = 120

\* A 429 with Retry-After 300 was followed by a sleep of 120 s.
C11_Witness ==
    /\ pc = "fetch"
    /\ caller = "direct"
    /\ sleep_count >= 1
    /\ response.status = 429
    /\ response.retry_after = [kind |-> "int", n |-> 300]
    /\ wait_time = 120

\* C12: an answer of 200, or of a status other than 200, 429 and 503, is
\* returned at once: the step that receives it ends the call without a sleep
\* and without counting a retry, however many retries came before, and no
\* request of that call follows.
C12_ReturnsAtOnce ==
    /\ [](fetch_out = "returned" =>
            /\ pc # "fetch"
            /\ response.status \in {StatusOK} \cup StatusOther
            /\ retry_count = sleep_count
            /\ req_count = retry_count + 1)
    /\ [][(pc = "fetch" /\ caller = "direct"
             /\ response'.status \in {StatusOK} \cup StatusOther) =>
            /\ fetch_out' = "returned"
            /\ pc' = "idle"
            /\ retry_count' = retry_count
            /\ sleep_count' = sleep_count
            /\ wait_time' = wait_time
            /\ req_count' = req_count + 1]_vars
    /\ [][(fetch_out = "returned" /\ req_count' # req_count) =>
            (fetch_out' = "running" /\ req_count' = 0)]_vars

\* A 404 was returned as the fourth answer of a call, after three retries.
C12_Witness ==
    /\ fetch_out = "returned"
    /\ caller = "direct"
    /\ response.status = 404
    /\ retry_count = 3
    /\ sleep_count = 3
    /\ req_count = 4

\* C13: a network failure is retried with the backoff min(2^(k-1), 120);
\* throttling answers and network failures count on the one retry counter
\* of the call, so a call never makes more than max_retries retries, and
\* every call starts its counter at zero.
C13_NetworkRetriesShareBudget ==
    /\ (pc = "fetch" /\ caller = "direct" /\ retry_count >= 1
            /\ response.status = NetErr) =>
          wait_time = ExpectedBackoff(retry_count)
    /\ sleep_count <= max_retries
    /\ pc = "fetch" =>
          /\ retry_count <= max_retries
          /\ sleep_count = retry_count
          /\ req_count = retry_count
    /\ fetch_out \in {"retries_exhausted", "network_exhausted"} =>
          /\ retry_count = max_retries + 1
          /\ sleep_count = max_retries
    /\ (fetch_out = "running" /\ req_count = 0) => retry_count = 0

\* In the second helper call of a run, a 503 after an earlier network
\* failure used up the last retry of a budget of four; the fourth wait was
\* the 8 s of the backoff.
C13_Witness ==
    /\ pc = "fetch"
    /\ caller = "direct"
    /\ calls = 2
    /\ ~throttled_only
    /\ response.status = 503
    /\ response.retry_after.kind = "absent"
    /\ max_retries = 4
    /\ retry_count = 4
    /\ wait_time = 8

\* C20: a 429/503 whose Retry-After is the integer 0 or a negative integer
\* is retried at once: the wait passed to time.sleep is never negative and
\* never positive for such a header, and the call ends only by a returned
\* response or by exhausting its retries.
C20_NonPositiveRetryAfterRetriesAtOnce ==
    /\ wait_time >= 0
    /\ fetch_out \in {"none", "running", "returned", "retries_exhausted",
                      "network_exhausted"}
    /\ (pc = "fetch" /\ caller = "direct" /\ retry_count >= 1
            /\ response.status \in StatusThrottle
            /\ response.retry_after.kind = "int"
            /\ response.retry_after.n <= 0) =>
          /\ wait_time = 0
          /\ sleep_count = retry_count

\* The records of the model whose resource the transcript filter accepts:
\* '/m/Transcripts' holds 'transcript' once lower-cased, and
\* 'communications/onlineMeetings/1' holds the second pattern as written.
TranscriptIds == {"s1", "s3"}

\* The records the last finished generate_report had to process.
Processed ==
    IF filter_transcripts
      THEN SelectSeq(subscriptions, LAMBDA r : r.id \in TranscriptIds)
      ELSE subscriptions

KeyOf(sub) == Get(sub.applicationId, "Unknown")
EntryOf(sub) == [id |-> sub.id, resource |-> sub.resource]
EntriesOf(subs) == [i \in 1..Len(subs) |-> EntryOf(subs[i])]
RecordsOfKey(subs, a) == SelectSeq(subs, LAMBDA r : KeyOf(r) = a)

RECURSIVE SumCounts(_)
SumCounts(groups) ==
    IF groups = << >> THEN 0
    ELSE Len(groups[1].subscriptions) + SumCounts(Tail(groups))

ReportReturned == pc = "idle" /\ report.generated

\* C14: in every report the group sizes add up to reportedSubscriptions,
\* uniqueApplications is the number of groups, every processed record is in
\* exactly one group (the group of its application, 'Unknown' when it has
\* no applicationId), and no group is empty.
C14_GroupsPartitionRecords ==
    /\ ReportReturned =>
        LET apps == report.applications
            todo == Processed
        IN  /\ SumCounts(apps) = report.reportedSubscriptions
            /\ SumCounts(apps) = Len(todo)
            /\ report.uniqueApplications = Len(apps)
            /\ \A i \in 1..Len(apps) : Len(apps[i].subscriptions) >= 1
            /\ \A i, j \in 1..Len(apps) :
                  apps[i].applicationId = apps[j].applicationId => i = j
            /\ \A k \in 1..Len(todo) :
                  \E i \in 1..Len(apps) :
                      /\ apps[i].applicationId = KeyOf(todo[k])
                      /\ \E n \in 1..Len(apps[i].subscriptions) :
                            apps[i].subscriptions[n] = EntryOf(todo[k])
            /\ \A i \in 1..Len(apps) :
                  Len(apps[i].subscriptions) =
                      Len(RecordsOfKey(todo, apps[i].applicationId))
    /\ pc = "report" =>
          \A i \in 1..Len(apps_map) : Len(apps_map[i].subscriptions) >= 1

\* A report of two groups: one of a record without applicationId, one whose
\* lookup failed.
C14_Witness ==
    /\ ReportReturned
    /\ report.reportedSubscriptions = 2
    /\ report.uniqueApplications = 2
    /\ \E i, j \in 1..Len(report.applications) :
          /\ report.applications[i].applicationId = "Unknown"
          /\ report.applications[j].displayName = "Error fetching details"

KeysOf(subs) == [i \in 1..Len(subs) |-> KeyOf(subs[i])]

\* The distinct elements of s, in the order of their first occurrence.
RECURSIVE FirstOccurrences(_)
FirstOccurrences(s) ==
    IF s = << >> THEN << >>
    ELSE LET front == FirstOccurrences(SubSeq(s, 1, Len(s) - 1))
             x == s[Len(s)]
         IN  IF \E i \in 1..Len(front) : front[i] = x THEN front
             ELSE Append(front, x)

\* C16: during one generate_report the records are processed in input
\* order; get_application_details is called once per distinct application
\* id, at the first record that carries it, so the calls are in
\* first-occurrence order; and the records of every group keep their input
\* order.
C16_InputOrderIsKept ==
    /\ pc = "report" =>
        LET done == SubSeq(subs_to_process, 1, idx - 1)
        IN  /\ idx <= Len(subs_to_process)
            /\ resolve_calls = FirstOccurrences(KeysOf(done))
            /\ [i \in 1..Len(apps_map) |-> apps_map[i].applicationId]
                  = resolve_calls
            /\ \A i \in 1..Len(apps_map) :
                  apps_map[i].subscriptions =
                      EntriesOf(RecordsOfKey(done, apps_map[i].applicationId))
    /\ (pc = "fetch" /\ caller = "report") =>
        /\ app_id = KeyOf(subs_to_process[idx])
        /\ \A k \in 1..(idx - 1) : KeyOf(subs_to_process[k]) # app_id
        /\ resolve_calls =
              FirstOccurrences(KeysOf(SubSeq(subs_to_process, 1, idx)))
    /\ ReportReturned =>
        /\ resolve_calls = FirstOccurrences(KeysOf(Processed))
        /\ \A i \in 1..Len(report.applications) :
              report.applications[i].subscriptions =
                  EntriesOf(RecordsOfKey(Processed,
                                         report.applications[i].applicationId))

\* The records s2, s1 of application a1 were reported: one call of the
\* resolver, and the group lists s2 before s1.
C16_Witness ==
    /\ ReportReturned
    /\ resolve_calls = <<"a1">>
    /\ lookups["a1"] = 1
    /\ Len(report.applications) = 1
    /\ Len(report.applications[1].subscriptions) = 2
    /\ [i \in 1..2 |-> report.applications[1].subscriptions[i].id]
          = <<"s2", "s1">>

\* C17: totalSubscriptions is the size of the stored list and
\* transcriptSubscriptions the number of stored records the filter accepts,
\* whatever the flag; reportedSubscriptions is the first when the flag is
\* false and the second when it is true, and then only accepted records are
\* grouped; neither of the two exceeds totalSubscriptions; and
\* generate_report leaves the stored list as it was.
C17_ReportCounts ==
    /\ subscriptions = subs_before
    /\ ReportReturned =>
        LET matching == {i \in 1..Len(subscriptions) :
                            subscriptions[i].id \in TranscriptIds}
        IN  /\ report.totalSubscriptions = Len(subscriptions)
            /\ report.transcriptSubscriptions = Cardinality(matching)
            /\ report.reportedSubscriptions =
                  IF filter_transcripts THEN Cardinality(matching)
                  ELSE Len(subscriptions)
            /\ report.transcriptSubscriptions <= report.totalSubscriptions
            /\ report.reportedSubscriptions <= report.totalSubscriptions
            /\ filter_transcripts =>
                  \A i \in 1..Len(report.applications) :
                      \A n \in 1..Len(report.applications[i].subscriptions) :
                          report.applications[i].subscriptions[n].id
                              \in TranscriptIds

\* A filtered report over '/m/Transcripts' and the lower-case
\* 'communications/onlinemeetings': two stored, one accepted and reported.
C17_Witness ==
    /\ ReportReturned
    /\ filter_transcripts
    /\ [i \in 1..Len(subscriptions) |-> subscriptions[i].id] = <<"s4", "s1">>
    /\ report.totalSubscriptions = 2
    /\ report.transcriptSubscriptions = 1
    /\ report.reportedSubscriptions = 1
    /\ Len(report.applications) = 1

\* C19: get_application_details returns and stores the 'not found in
\* tenant' placeholder only after a lookup that was answered 200 with zero
\* matches; a lookup answered 401 or 404, like one that raised, gives the
\* error placeholder.
C19_NotFoundOnlyAfterEmptyLookup ==
    (pc # "fetch" /\ caller = "report" /\ app_id # None /\ ~ret_cached) =>
        /\ ret = NotFoundInfo(app_id) =>
              /\ response.status = StatusOK
              /\ response.body \in {"empty", "novalue"}
        /\ response.status \in StatusOther => ret = ErrorInfo(app_id)
        /\ response = NoResponse => ret = ErrorInfo(app_id)

\* Position of x in the sequence s.
PositionIn(s, x) == CHOOSE i \in 1..Len(s) : s[i] = x

\* C15: the groups of a report are in order of non-increasing size, they
\* are the groups that were created, each once, and groups of equal size
\* keep the order in which they were created; sizes 3, 1, 3, 2 come out as
\* the first 3, the second 3, the 2, the 1.
C15_SortIsStableDescending ==
    ReportReturned =>
        LET apps == report.applications
            created == FirstOccurrences(KeysOf(Processed))
            size(i) == Len(apps[i].subscriptions)
        IN  /\ Len(apps) = Len(created)
            /\ \A i, j \in 1..Len(apps) : i < j => size(i) >= size(j)
            /\ \A k \in 1..Len(created) :
                  \E i \in 1..Len(apps) :
                      /\ apps[i].applicationId = created[k]
                      /\ apps[i].subscriptions =
                            EntriesOf(RecordsOfKey(Processed, created[k]))
            /\ \A i, j \in 1..Len(apps) :
                  (i < j /\ size(i) = size(j)) =>
                      PositionIn(created, apps[i].applicationId)
                          < PositionIn(created, apps[j].applicationId)

\* Groups of sizes 3, 1, 3, 2, created in the order a1, a2, a3, a4, were
\* reported in the order a1, a3, a4, a2.
C15_Witness ==
    /\ ReportReturned
    /\ ~filter_transcripts
    /\ subscriptions = Blocks(<<3, 1, 3, 2>>, 1)
    /\ [i \in 1..Len(report.applications) |->
            report.applications[i].applicationId] = <<"a1", "a3", "a4", "a2">>

\* C18: a listing of three pages of 2, 2 and 1 records over two application
\* ids, followed by an unfiltered generate_report in which the lookup of
\* one id finds a match and the lookup of the other finds none, reports
\* totalSubscriptions 5 and uniqueApplications 2, one group with the
\* resolved display name and one with the 'not found' placeholder, the
\* larger group first, after exactly 3 listing requests and exactly 2
\* lookups, each answered at its first request.
C18_ThreePagesTwoApplications ==
    \A a, b \in {"a1", "a2"} :
        (/\ a # b
         /\ ReportReturned
         /\ ~filter_transcripts
         /\ list_out.kind = "returned"
         /\ [i \in 1..Len(served) |-> Len(served[i])] = <<2, 2, 1>>
         /\ {KeyOf(subscriptions[i]) : i \in 1..Len(subscriptions)} = {a, b}
         /\ DOMAIN app_details = {a, b}
         /\ app_details[a] = ResolvedInfo(a, "match")
         /\ app_details[b] = NotFoundInfo(b))
        => LET apps == report.applications
           IN  /\ report.totalSubscriptions = 5
               /\ report.reportedSubscriptions = 5
               /\ report.uniqueApplications = 2
               /\ Len(apps) = 2
               /\ \E i, j \in 1..2 :
                     /\ apps[i].applicationId = a
                     /\ apps[i].displayName = SpDisplayName(a)
                     /\ apps[j].applicationId = b
                     /\ apps[j].displayName = "Unknown (Not found in tenant)"
               /\ Len(apps[1].subscriptions) >= Len(apps[2].subscriptions)
               /\ Len(apps[1].subscriptions) + Len(apps[2].subscriptions) = 5
               /\ list_reqs = 3
               /\ page_count = 3
               /\ resolve_calls \in {<<a, b>>, <<b, a>>}
               /\ lookups[a] = 1
               /\ lookups[b] = 1
               /\ lookups["Unknown"] = 0

\* The pages (a1, a2), (a2, a1), (a2) were listed; a1 resolved to 'Contoso
\* Bot' and a2 was not found; the report lists a2 with 3 subscriptions
\* before a1 with 2.
C18_Witness ==
    /\ ReportReturned
    /\ ~filter_transcripts
    /\ list_out.kind = "returned"
    /\ KeysOf(subscriptions) = <<"a1", "a2", "a2", "a1", "a2">>
    /\ app_details = [x \in {"a1", "a2"} |->
                        IF x = "a1" THEN ResolvedInfo("a1", "match")
                        ELSE NotFoundInfo("a2")]
    /\ Len(report.applications) = 2
    /\ report.applications[1].displayName = "Unknown (Not found in tenant)"
    /\ Len(report.applications[1].subscriptions) = 3
    /\ report.applications[2].displayName = "Contoso Bot"
    /\ list_reqs = 3

====
